---- MODULE Spec2Model ----
(***************************************************************************)
(* Model of scripts/parse_aepx.py: the asset-reference extractor           *)
(* parse_aepx and its command-line wrapper main.                           *)
(*                                                                         *)
(* Strings are TLA+ strings handled character by character (Len, SubSeq,   *)
(* Head, Tail, \o).  The library calls the script makes (str.strip,        *)
(* str.startswith, os.path.* of posixpath, list.sort) are operators that   *)
(* compute what the library computes.  The parsed XML tree is the sequence *)
(* of its elements in document order, which is all root.iter() exposes.    *)
(***************************************************************************)
EXTENDS Integers, Sequences, FiniteSets, TLC

VARIABLES fs, argv, pc, stdout, stderr, exit_code, called, asset_paths,
          result, prev

vars == <<fs, argv, pc, stdout, stderr, exit_code, called, asset_paths,
          result, prev>>

(***************************************************************************)
(* Bounds of the model.                                                    *)
(***************************************************************************)
\* The longest document (number of elements) Init draws.
MaxNodes == 2

(***************************************************************************)
(* Strings.                                                                *)
(***************************************************************************)
Char(s, i) == SubSeq(s, i, i)

Last(s) == SubSeq(s, Len(s), Len(s))

Front(s) == SubSeq(s, 1, Len(s) - 1)

\* The characters str.strip() removes, among those the model uses.
IsSpace(c) == c \in {" ", "\t", "\n"}

RECURSIVE LStrip(_)
LStrip(s) == IF s # "" /\ IsSpace(Head(s)) THEN LStrip(Tail(s)) ELSE s

RECURSIVE RStrip(_)
RStrip(s) == IF s # "" /\ IsSpace(Last(s)) THEN RStrip(Front(s)) ELSE s

\* str.strip()
Strip(s) == RStrip(LStrip(s))

\* str.startswith(p)
StartsWith(s, p) == Len(s) >= Len(p) /\ SubSeq(s, 1, Len(p)) = p

\* str.endswith(p)
EndsWith(s, p) ==
    Len(s) >= Len(p) /\ SubSeq(s, Len(s) - Len(p) + 1, Len(s)) = p

\* sub in s
Contains(s, sub) ==
    \E i \in 1..(Len(s) - Len(sub) + 1) : SubSeq(s, i, i + Len(sub) - 1) = sub

UpperCase == "ABCDEFGHIJKLMNOPQRSTUVWXYZ"

LowerCase == "abcdefghijklmnopqrstuvwxyz"

LowerChar(c) ==
    IF \E i \in 1..Len(UpperCase) : Char(UpperCase, i) = c
    THEN Char(LowerCase, CHOOSE i \in 1..Len(UpperCase) : Char(UpperCase, i) = c)
    ELSE c

\* str.lower()
RECURSIVE Lower(_)
Lower(s) == IF s = "" THEN "" ELSE LowerChar(Head(s)) \o Lower(Tail(s))

\* The characters of the model in ascending code point order.
CodeOrder ==
    "\t\n ./0123456789:ABCDEFGHIJKLMNOPQRSTUVWXYZ_abcdefghijklmnopqrstuvwxyz{}"

CodePoint(c) == CHOOSE i \in 1..Len(CodeOrder) : Char(CodeOrder, i) = c

\* a < b on str: code point by code point, a proper prefix first.
RECURSIVE StrLess(_, _)
StrLess(a, b) ==
    IF b = "" THEN FALSE
    ELSE IF a = "" THEN TRUE
    ELSE IF Head(a) = Head(b) THEN StrLess(Tail(a), Tail(b))
    ELSE CodePoint(Head(a)) < CodePoint(Head(b))

\* s.rfind(c) + 1: the 1-based index of the last c in s, 0 when there is none.
RECURSIVE RFindFrom(_, _, _)
RFindFrom(s, c, i) ==
    IF i = 0 THEN 0
    ELSE IF Char(s, i) = c THEN i
    ELSE RFindFrom(s, c, i - 1)

RFind(s, c) == RFindFrom(s, c, Len(s))

\* The scan of s.split(sep): cur is the part being read, parts those read.
RECURSIVE SplitScan(_, _, _, _)
SplitScan(s, sep, cur, parts) ==
    IF s = "" THEN Append(parts, cur)
    ELSE IF Head(s) = sep THEN SplitScan(Tail(s), sep, "", Append(parts, cur))
    ELSE SplitScan(Tail(s), sep, cur \o Head(s), parts)

\* s.split(sep) for a one-character sep.
Split(s, sep) == SplitScan(s, sep, "", <<>>)

\* sep.join(parts)
RECURSIVE JoinWith(_, _)
JoinWith(parts, sep) ==
    IF parts = <<>> THEN ""
    ELSE IF Len(parts) = 1 THEN parts[1]
    ELSE parts[1] \o sep \o JoinWith(Tail(parts), sep)

(***************************************************************************)
(* os.path (posixpath).                                                    *)
(***************************************************************************)
\* os.path.isabs
IsAbs(p) == StartsWith(p, "/")

\* os.path.join(a, b)
PathJoin(a, b) ==
    IF StartsWith(b, "/") THEN b
    ELSE IF a = "" \/ EndsWith(a, "/") THEN a \o b
    ELSE a \o "/" \o b

\* The loop of posixpath.normpath over the components of the path.
RECURSIVE NormComps(_, _, _)
NormComps(comps, new_comps, initial_slashes) ==
    IF comps = <<>> THEN new_comps
    ELSE LET comp == Head(comps)
             rest == Tail(comps)
         IN  IF comp \in {"", "."}
             THEN NormComps(rest, new_comps, initial_slashes)
             ELSE IF \/ comp # ".."
                     \/ (initial_slashes = 0 /\ new_comps = <<>>)
                     \/ (new_comps # <<>> /\ new_comps[Len(new_comps)] = "..")
             THEN NormComps(rest, Append(new_comps, comp), initial_slashes)
             ELSE IF new_comps # <<>>
             THEN NormComps(rest, SubSeq(new_comps, 1, Len(new_comps) - 1),
                            initial_slashes)
             ELSE NormComps(rest, new_comps, initial_slashes)

\* os.path.normpath
NormPath(path) ==
    IF path = "" THEN "."
    ELSE LET initial_slashes ==
                 IF ~StartsWith(path, "/") THEN 0
                 ELSE IF StartsWith(path, "//") /\ ~StartsWith(path, "///")
                 THEN 2 ELSE 1
             joined == JoinWith(NormComps(Split(path, "/"), <<>>,
                                          initial_slashes), "/")
             out == IF initial_slashes = 2 THEN "//" \o joined
                    ELSE IF initial_slashes = 1 THEN "/" \o joined
                    ELSE joined
         IN  IF out = "" THEN "." ELSE out

\* The working directory of the process.
Cwd == "/p"

\* os.path.abspath
AbsPath(path) ==
    NormPath(IF IsAbs(path) THEN path ELSE PathJoin(Cwd, path))

AllSlashes(s) == \A i \in 1..Len(s) : Char(s, i) = "/"

RECURSIVE RStripSlash(_)
RStripSlash(s) ==
    IF s # "" /\ Last(s) = "/" THEN RStripSlash(Front(s)) ELSE s

\* os.path.dirname
DirName(p) ==
    LET head == SubSeq(p, 1, RFind(p, "/"))
    IN  IF head # "" /\ ~AllSlashes(head) THEN RStripSlash(head) ELSE head

\* os.path.basename
BaseName(p) == SubSeq(p, RFind(p, "/") + 1, Len(p))

\* os.path.splitext(p)[1]
SplitExt1(p) ==
    LET sepIndex == RFind(p, "/")
        dotIndex == RFind(p, ".")
    IN  IF /\ dotIndex > sepIndex
           /\ \E k \in (sepIndex + 1)..(dotIndex - 1) : Char(p, k) # "."
        THEN SubSeq(p, dotIndex, Len(p))
        ELSE ""

NonEmpty(seq) == SelectSeq(seq, LAMBDA x : x # "")

RECURSIVE CommonLen(_, _)
CommonLen(a, b) ==
    IF a # <<>> /\ b # <<>> /\ Head(a) = Head(b)
    THEN 1 + CommonLen(Tail(a), Tail(b)) ELSE 0

\* os.path.relpath(path, start)
RelPath(path, start) ==
    LET start_list == NonEmpty(Split(AbsPath(start), "/"))
        path_list == NonEmpty(Split(AbsPath(path), "/"))
        i == CommonLen(start_list, path_list)
        rel_list == [k \in 1..(Len(start_list) - i) |-> ".."]
                    \o SubSeq(path_list, i + 1, Len(path_list))
    IN  IF rel_list = <<>> THEN "." ELSE JoinWith(rel_list, "/")

(***************************************************************************)
(* list.sort: a stable sort, ascending.                                    *)
(***************************************************************************)
\* One insertion of a stable insertion sort of indices by their keys.
RECURSIVE InsertByKey(_, _, _)
InsertByKey(i, sorted, keys) ==
    IF sorted = <<>> THEN <<i>>
    ELSE IF StrLess(keys[i], keys[Head(sorted)]) THEN <<i>> \o sorted
    ELSE <<Head(sorted)>> \o InsertByKey(i, Tail(sorted), keys)

RECURSIVE SortIndices(_, _, _)
SortIndices(i, sorted, keys) ==
    IF i > Len(keys) THEN sorted
    ELSE SortIndices(i + 1, InsertByKey(i, sorted, keys), keys)

\* list.sort(key=...): the items in ascending order of their keys, items of
\* equal keys in their original order.
SortByKeys(items, keys) ==
    LET idx == SortIndices(1, <<>>, keys)
    IN  [k \in 1..Len(items) |-> items[idx[k]]]

\* assets left in the order the loop appended them.
AssetsUnsorted(assets) == assets

\* result["assets"].sort(key=lambda x: x["path"])
SortAssets(assets) ==
    SortByKeys(assets, [i \in 1..Len(assets) |-> assets[i].path])

\* missing_assets left in the order the loop appended them.
MissingUnsorted(missing) == missing

\* result["missing_assets"].sort()
SortMissing(missing) == SortByKeys(missing, missing)

(***************************************************************************)
(* The filesystem: fs maps each existing absolute path to its entry        *)
(* [kind, size, wellformed, nodes]; wellformed and nodes say what ET.parse *)
(* makes of a file's content.                                              *)
(***************************************************************************)
\* The kernel's resolution of a path name against the working directory.
\* It ignores repeated slashes, which normpath keeps when a path starts
\* with exactly two.  No entry of fs is a symbolic link.
OsResolve(p) ==
    LET abs == IF IsAbs(p) THEN p ELSE PathJoin(Cwd, p)
    IN  "/" \o JoinWith(NormComps(Split(abs, "/"), <<>>, 1), "/")

\* os.path.exists
Exists(p) == OsResolve(p) \in DOMAIN fs

\* os.path.isfile
IsFile(p) == Exists(p) /\ fs[OsResolve(p)].kind = "file"

\* os.path.getsize
GetSize(p) == fs[OsResolve(p)].size

\* Whether ET.parse(path) returns a tree rather than raising.
ParseOk(path) == IsFile(path) /\ fs[OsResolve(path)].wellformed

\* tree.getroot(): the elements of the tree, in the order of root.iter().
GetRoot(path) == fs[OsResolve(path)].nodes

(***************************************************************************)
(* parse_aepx: collecting the candidate paths.  An element is a record     *)
(* [tag, attrib, text]; attrib is a function from attribute names to       *)
(* values; text is "" when the element has none (elem.text is None).       *)
(***************************************************************************)
\* The body of the Method 1 loop: what one element adds to asset_paths.
Method1Adds(file_ref) ==
    IF /\ \/ EndsWith(file_ref.tag, "fileReference")
          \/ Contains(file_ref.tag, "fileReference")
       /\ "fullpath" \in DOMAIN file_ref.attrib
       /\ file_ref.attrib["fullpath"] # ""
       /\ Strip(file_ref.attrib["fullpath"]) # ""
    THEN {Strip(file_ref.attrib["fullpath"])}
    ELSE {}

\* The body of the Method 2 loop, with the tag filter of root.iter('fullpath').
Method2Adds(fullpath) ==
    IF fullpath.tag = "fullpath" /\ fullpath.text # ""
    THEN {fullpath.text}
    ELSE {}

\* Method 3 with the attribute names compared as written, not lowered.
Method3AddsCaseSensitive(elem) ==
    IF elem.tag \in {"file", "path", "src", "source"}
    THEN (IF elem.text # "" THEN {elem.text} ELSE {})
         \cup {elem.attrib[attr] : attr \in
                 {a \in DOMAIN elem.attrib :
                     Contains(a, "path") \/ Contains(a, "file")}}
    ELSE {}

\* The body of the Method 3 loop.
Method3Adds(elem) ==
    IF elem.tag \in {"file", "path", "src", "source"}
    THEN (IF elem.text # "" THEN {elem.text} ELSE {})
         \cup {elem.attrib[attr] : attr \in
                 {a \in DOMAIN elem.attrib :
                     \/ Contains(Lower(a), "path")
                     \/ Contains(Lower(a), "file")}}
    ELSE {}

RECURSIVE Method1(_, _)
Method1(nodes, paths) ==
    IF nodes = <<>> THEN paths
    ELSE Method1(Tail(nodes), paths \cup Method1Adds(Head(nodes)))

RECURSIVE Method2(_, _)
Method2(nodes, paths) ==
    IF nodes = <<>> THEN paths
    ELSE Method2(Tail(nodes), paths \cup Method2Adds(Head(nodes)))

RECURSIVE Method3(_, _)
Method3(nodes, paths) ==
    IF nodes = <<>> THEN paths
    ELSE Method3(Tail(nodes), paths \cup Method3Adds(Head(nodes)))

\* asset_paths after the three loops over root.iter().
CollectAssetPaths(root) == Method3(root, Method2(root, Method1(root, {})))

(***************************************************************************)
(* parse_aepx: resolving and classifying the candidates.                   *)
(***************************************************************************)
\* The URL test without the file:// scheme.
IsUrlWebOnly(asset_path) ==
    \/ StartsWith(asset_path, "http://")
    \/ StartsWith(asset_path, "https://")

\* asset_path.startswith(('http://', 'https://', 'file://'))
IsUrl(asset_path) ==
    \/ StartsWith(asset_path, "http://")
    \/ StartsWith(asset_path, "https://")
    \/ StartsWith(asset_path, "file://")

\* The two `continue` tests of the loop, on the candidate as the set holds it.
Skipped(asset_path) ==
    \/ asset_path = ""
    \/ Strip(asset_path) = ""
    \/ IsUrl(Strip(asset_path))

\* Resolution of a relative candidate against the working directory
\* instead of the project directory.
ResolvePathFromCwd(asset_path, project_dir) ==
    LET stripped == Strip(asset_path)
        absolute == IF ~IsAbs(stripped) THEN PathJoin(Cwd, stripped)
                    ELSE stripped
    IN  NormPath(absolute)

\* The path the loop checks for a candidate it does not skip.
ResolvePath(asset_path, project_dir) ==
    LET stripped == Strip(asset_path)
        absolute == IF ~IsAbs(stripped) THEN PathJoin(project_dir, stripped)
                    ELSE stripped
    IN  NormPath(absolute)

\* The dictionary appended to result["assets"].
AssetRecord(asset_path, project_dir) ==
    [path |-> asset_path,
     relative_path |-> RelPath(asset_path, project_dir),
     filename |-> BaseName(asset_path),
     extension |-> SplitExt1(asset_path),
     size |-> GetSize(asset_path)]

\* The iteration with a missing list that takes only paths that do not
\* exist, so that a directory is in neither list.
ProcessAssetPathOmitsDirs(asset_path, project_dir, res) ==
    IF Skipped(asset_path) THEN res
    ELSE LET resolved == ResolvePath(asset_path, project_dir)
         IN  IF Exists(resolved) /\ IsFile(resolved)
             THEN [res EXCEPT
                     !.assets = Append(@, AssetRecord(resolved, project_dir)),
                     !.total_size = @ + GetSize(resolved)]
             ELSE IF ~Exists(resolved)
             THEN [res EXCEPT !.missing_assets = Append(@, resolved)]
             ELSE res

\* The iteration with total_size assigned (=) rather than accumulated (+=).
ProcessAssetPathAssignsSize(asset_path, project_dir, res) ==
    IF Skipped(asset_path) THEN res
    ELSE LET resolved == ResolvePath(asset_path, project_dir)
         IN  IF Exists(resolved) /\ IsFile(resolved)
             THEN [res EXCEPT
                     !.assets = Append(@, AssetRecord(resolved, project_dir)),
                     !.total_size = GetSize(resolved)]
             ELSE [res EXCEPT !.missing_assets = Append(@, resolved)]

\* One iteration of the loop over asset_paths.
ProcessAssetPath(asset_path, project_dir, res) ==
    IF Skipped(asset_path) THEN res
    ELSE LET resolved == ResolvePath(asset_path, project_dir)
         IN  IF Exists(resolved) /\ IsFile(resolved)
             THEN [res EXCEPT
                     !.assets = Append(@, AssetRecord(resolved, project_dir)),
                     !.total_size = @ + GetSize(resolved)]
             ELSE [res EXCEPT !.missing_assets = Append(@, resolved)]

\* The loop over asset_paths, in the order the set is iterated.
RECURSIVE ProcessLoop(_, _, _)
ProcessLoop(order, project_dir, res) ==
    IF order = <<>> THEN res
    ELSE ProcessLoop(Tail(order), project_dir,
                     ProcessAssetPath(Head(order), project_dir, res))

\* The initial dictionary with the path as given, not made absolute.
InitialResultRawPath(aepx_path) ==
    [project_file |-> aepx_path,
     assets |-> <<>>,
     missing_assets |-> <<>>,
     total_size |-> 0]

\* The dictionary parse_aepx starts from.
InitialResult(aepx_path) ==
    [project_file |-> AbsPath(aepx_path),
     assets |-> <<>>,
     missing_assets |-> <<>>,
     total_size |-> 0]

\* The two sorts that end parse_aepx.
SortResult(res) ==
    [res EXCEPT !.assets = SortAssets(@),
                !.missing_assets = SortMissing(@)]

\* The value parse_aepx returns when the set is iterated in `order`.
ParseAepx(aepx_path, order) ==
    IF ~ParseOk(aepx_path) THEN InitialResult(aepx_path)
    ELSE SortResult(ProcessLoop(order, DirName(AbsPath(aepx_path)),
                                InitialResult(aepx_path)))

\* asset_paths when the loop over it starts; empty on the early return.
AssetPathsOf(aepx_path) ==
    IF ~ParseOk(aepx_path) THEN {}
    ELSE CollectAssetPaths(GetRoot(aepx_path))

\* The orders in which a set of strings may be iterated: a set makes no
\* promise, and str hashes differ from one process to the next.
RECURSIVE IterationOrders(_)
IterationOrders(S) ==
    IF S = {} THEN {<<>>}
    ELSE UNION {{<<x>> \o rest : rest \in IterationOrders(S \ {x})} : x \in S}

(***************************************************************************)
(* json.dumps(result, indent=2).                                           *)
(***************************************************************************)
\* The escapes json.dumps applies, among the characters of the model.
JsonChar(c) ==
    IF c = "\"" THEN "\\\""
    ELSE IF c = "\\" THEN "\\\\"
    ELSE IF c = "\n" THEN "\\n"
    ELSE IF c = "\t" THEN "\\t"
    ELSE c

RECURSIVE JsonEscape(_)
JsonEscape(s) == IF s = "" THEN "" ELSE JsonChar(Head(s)) \o JsonEscape(Tail(s))

JsonStr(s) == "\"" \o JsonEscape(s) \o "\""

\* A list at the first nesting level: items one per line, "[]" when empty.
JsonList(items) ==
    IF items = <<>> THEN "[]"
    ELSE "[\n    " \o JoinWith(items, ",\n    ") \o "\n  ]"

JsonAsset(a) ==
    "{\n      \"path\": " \o JsonStr(a.path)
    \o ",\n      \"relative_path\": " \o JsonStr(a.relative_path)
    \o ",\n      \"filename\": " \o JsonStr(a.filename)
    \o ",\n      \"extension\": " \o JsonStr(a.extension)
    \o ",\n      \"size\": " \o ToString(a.size)
    \o "\n    }"

JsonDumps(res) ==
    "{\n  \"project_file\": " \o JsonStr(res.project_file)
    \o ",\n  \"assets\": "
    \o JsonList([i \in 1..Len(res.assets) |-> JsonAsset(res.assets[i])])
    \o ",\n  \"missing_assets\": "
    \o JsonList([i \in 1..Len(res.missing_assets) |->
                    JsonStr(res.missing_assets[i])])
    \o ",\n  \"total_size\": " \o ToString(res.total_size)
    \o "\n}"

(***************************************************************************)
(* The documents and filesystems the model draws from.                     *)
(***************************************************************************)
Element(tag, attrib, text) == [tag |-> tag, attrib |-> attrib, text |-> text]

NoAttrib == <<>>

\* Elements covering each rule's cases: references equal after trimming
\* (" a ", " a", "./a"), an absolute path, paths through "..", a directory,
\* blanks, URLs, and elements and attributes no rule reads.
ElementPool ==
    { Element("fileReference", "fullpath" :> " a ", ""),
      Element("{n}fileReference",
              "fullpath" :> "/p/s/../s/b" @@ "path" :> "zz", ""),
      Element("fileReference", "fullpath" :> "  ", "c"),
      Element("fullpath", NoAttrib, " a"),
      Element("path", "srcFile" :> "http://h/a", "./a"),
      Element("src", "FilePath" :> "d" @@ "id" :> "b", ""),
      Element("source", NoAttrib, " file://x"),
      Element("file", NoAttrib, "  "),
      Element("file", "FILE" :> "../a", ""),
      Element("item", "path" :> "b" @@ "fullpath" :> "b", "b") }

\* The documents: every sequence of 1..MaxNodes elements of the pool.
Documents == UNION {[1..n -> ElementPool] : n \in 1..MaxNodes}

Dir == [kind |-> "dir", size |-> 0, wellformed |-> FALSE, nodes |-> <<>>]

\* A file that is not XML.
File(size) ==
    [kind |-> "file", size |-> size, wellformed |-> FALSE, nodes |-> <<>>]

\* A well-formed XML file with the given elements.
XmlFile(size, nodes) ==
    [kind |-> "file", size |-> size, wellformed |-> TRUE, nodes |-> nodes]

\* What the tree holds whatever Init draws.
FixedEntries(doc) ==
    "/" :> Dir @@ "/p" :> Dir @@ "/p/s" :> Dir
    @@ "/p/s/x.aepx" :> XmlFile(9, doc)
    @@ "/p/x.xml" :> XmlFile(9, doc)
    @@ "/p/m.aepx" :> File(4)
    @@ "/p/d.aepx" :> Dir
    @@ "/p/a" :> File(7)
    @@ "/p/s/b" :> File(5)
    @@ "/p/s/d" :> Dir

\* What /p/s/a may be: absent or a file.
AssetStates == { <<>>, "/p/s/a" :> File(2) }

Filesystems == {FixedEntries(doc) @@ a : doc \in Documents, a \in AssetStates}

\* sys.argv of an invocation; argv[1] is the script's name.
Argvs ==
    { <<"parse_aepx.py">>,
      <<"parse_aepx.py", "s/x.aepx", "s/x.aepx">>,
      <<"parse_aepx.py", "n.aepx">>,
      <<"parse_aepx.py", "x.xml">>,
      <<"parse_aepx.py", "s/x.aepx">>,
      <<"parse_aepx.py", "m.aepx">>,
      <<"parse_aepx.py", "/p/d.aepx">> }

(***************************************************************************)
(* main, one action per path through it, and the next invocation.          *)
(***************************************************************************)
\* exit_code while the process runs.
Running == -1

\* What an invocation left behind, kept when the command is run again.
Outcome ==
    [argv |-> argv, stdout |-> stdout, exit_code |-> exit_code,
     called |-> called, result |-> result]

Init ==
    /\ fs \in Filesystems
    /\ argv \in Argvs
    /\ pc = "start"
    /\ stdout = <<>>
    /\ stderr = <<>>
    /\ exit_code = Running
    /\ called = FALSE
    /\ asset_paths = {}
    /\ result = <<>>
    /\ prev = <<>>

\* sys.exit(1) after a message on stderr.
Fail(message) ==
    /\ stderr' = Append(stderr, message)
    /\ exit_code' = 1
    /\ pc' = "exited"
    /\ UNCHANGED <<fs, argv, stdout, called, asset_paths, result, prev>>

\* len(sys.argv) != 2
UsageError ==
    /\ pc = "start"
    /\ Len(argv) # 2
    /\ Fail("Usage: parse_aepx.py <path-to-aepx-file>")

\* not os.path.exists(aepx_path)
NotFoundError ==
    /\ pc = "start"
    /\ Len(argv) = 2
    /\ ~Exists(argv[2])
    /\ Fail("Error: File '" \o argv[2] \o "' not found")

\* not aepx_path.endswith('.aepx')
ExtensionError ==
    /\ pc = "start"
    /\ Len(argv) = 2
    /\ Exists(argv[2])
    /\ ~EndsWith(argv[2], ".aepx")
    /\ Fail("Error: File must have .aepx extension")

\* main without its final sys.exit(2).
ExitStatusAlwaysZero(res) == 0

\* The exit status after the report is printed.
ExitStatus(res) == IF res.missing_assets # <<>> THEN 2 ELSE 0

\* parse_aepx is called, its result printed, and the process exits.
Extract ==
    /\ pc = "start"
    /\ Len(argv) = 2
    /\ Exists(argv[2])
    /\ EndsWith(argv[2], ".aepx")
    /\ \E order \in IterationOrders(AssetPathsOf(argv[2])) :
         LET res == ParseAepx(argv[2], order)
         IN  /\ result' = <<res>>
             /\ stdout' = Append(stdout, JsonDumps(res) \o "\n")
             /\ exit_code' = ExitStatus(res)
    /\ called' = TRUE
    /\ asset_paths' = AssetPathsOf(argv[2])
    /\ stderr' = IF ParseOk(argv[2]) THEN stderr
                 ELSE Append(stderr, "Warning: XML parse error")
    /\ pc' = "exited"
    /\ UNCHANGED <<fs, argv, prev>>

\* The same command line is run again on the unchanged filesystem.
RunAgain ==
    /\ pc = "exited"
    /\ prev' = <<Outcome>>
    /\ pc' = "start"
    /\ stdout' = <<>>
    /\ stderr' = <<>>
    /\ exit_code' = Running
    /\ called' = FALSE
    /\ asset_paths' = {}
    /\ result' = <<>>
    /\ UNCHANGED <<fs, argv>>

Next ==
    \/ UsageError
    \/ NotFoundError
    \/ ExtensionError
    \/ Extract
    \/ RunAgain

Spec == Init /\ [][Next]_vars

(***************************************************************************)
(* Vocabulary of the properties.  These are stated from the description of *)
(* the extractor, not through the operators of parse_aepx above.           *)
(***************************************************************************)
Done == pc = "exited"

\* parse_aepx was called and has returned.
Returned == Done /\ called

\* parse_aepx was called on a well-formed document and has returned.
Parsed == Returned /\ ParseOk(argv[2])

Report == result[1]

\* The directory containing the input document.
ProjectDir == DirName(AbsPath(argv[2]))

IsBlank(c) == Strip(c) = ""

HasUrlScheme(c) ==
    \E scheme \in {"http://", "https://", "file://"} :
        StartsWith(Strip(c), scheme)

\* The candidates that remain after dropping blanks and URLs.
Surviving == {c \in asset_paths : ~IsBlank(c) /\ ~HasUrlScheme(c)}

\* A candidate's normalized path, relative ones under the project directory.
Resolved(c) ==
    NormPath(IF IsAbs(Strip(c)) THEN Strip(c)
             ELSE PathJoin(ProjectDir, Strip(c)))

RegularFile(p) ==
    LET q == OsResolve(p) IN q \in DOMAIN fs /\ fs[q].kind = "file"

AssetPathAt(i) == Report.assets[i].path

AssetIndices == 1..Len(Report.assets)

MissingIndices == 1..Len(Report.missing_assets)

\* How many entries of the report, over both lists, carry path p.
EntriesFor(p) ==
    Cardinality({i \in AssetIndices : AssetPathAt(i) = p})
    + Cardinality({i \in MissingIndices : Report.missing_assets[i] = p})

\* a <= b on str.
StrLeq(a, b) == a = b \/ StrLess(a, b)

RECURSIVE SumSizes(_)
SumSizes(assets) ==
    IF assets = <<>> THEN 0 ELSE Head(assets).size + SumSizes(Tail(assets))

PreconditionsHold ==
    /\ Len(argv) = 2
    /\ Exists(argv[2])
    /\ EndsWith(argv[2], ".aepx")

(***************************************************************************)
(* The properties.                                                         *)
(***************************************************************************)
\* C1: on a well-formed document, assets and missing_assets partition the
\* candidates that survive the blank and URL filters: every surviving
\* candidate yields exactly one entry (a path has as many entries as
\* surviving candidates resolve to it, so none is omitted and none is
\* invented), and no path is in both lists.
C1_Partition ==
    Parsed =>
        /\ \A c \in Surviving :
             EntriesFor(Resolved(c)) =
                 Cardinality({d \in Surviving : Resolved(d) = Resolved(c)})
        /\ Len(Report.assets) + Len(Report.missing_assets)
               = Cardinality(Surviving)
        /\ \A i \in AssetIndices : \A j \in MissingIndices :
             AssetPathAt(i) # Report.missing_assets[j]

\* A well-formed run with surviving, blank-or-URL, present and missing
\* candidates all at once.
C1_Witness ==
    /\ Parsed
    /\ Surviving # asset_paths
    /\ Report.assets # <<>>
    /\ Report.missing_assets # <<>>

\* C2: candidates equal after trimming give a single entry: the report has
\* as many entries as there are distinct trimmed surviving candidates.
C2_DedupOnTrimmed ==
    Parsed =>
        Len(Report.assets) + Len(Report.missing_assets)
            = Cardinality({Strip(c) : c \in Surviving})

\* C3: in every report parse_aepx returns, total_size is the sum of the
\* sizes of the entries of assets.
C3_TotalSize ==
    Returned => Report.total_size = SumSizes(Report.assets)

\* Two candidates resolved to the same file, and both were counted.
C3_Witness ==
    /\ Parsed
    /\ \E i, j \in AssetIndices : i # j /\ AssetPathAt(i) = AssetPathAt(j)
    /\ Report.total_size > SumSizes(<<Report.assets[1]>>)

\* C4: a failed precondition exits 1 with parse_aepx not called and nothing
\* on standard output; otherwise the report is printed exactly once and the
\* exit status is 2 when missing_assets is non-empty and 0 when it is empty.
C4_CliOutcome ==
    Done =>
        IF ~PreconditionsHold
        THEN exit_code = 1 /\ ~called /\ stdout = <<>> /\ result = <<>>
        ELSE /\ called
             /\ stdout = <<JsonDumps(Report) \o "\n">>
             /\ (Report.missing_assets # <<>> => exit_code = 2)
             /\ (Report.missing_assets = <<>> => exit_code = 0)

\* The report was printed in full and the process exited 2.
C4_Witness ==
    /\ Done
    /\ exit_code = 2
    /\ Len(stdout) = 1
    /\ Report.assets # <<>>

\* C5: when the document cannot be parsed, parse_aepx returns the empty
\* report for the absolute input path after one diagnostic on the error
\* stream, and the wrapper prints that report and exits 0.
C5_ParseFailure ==
    (Returned /\ ~ParseOk(argv[2])) =>
        /\ Report = [project_file |-> AbsPath(argv[2]), assets |-> <<>>,
                     missing_assets |-> <<>>, total_size |-> 0]
        /\ Len(stderr) = 1
        /\ stdout = <<JsonDumps(Report) \o "\n">>
        /\ exit_code = 0

\* A regular file that is not XML, named by a relative path.
C5_Witness ==
    /\ Returned
    /\ IsFile(argv[2])
    /\ ~ParseOk(argv[2])
    /\ argv[2] # AbsPath(argv[2])
    /\ Len(stdout) = 1

\* C6: every path in assets is an existing regular file, no path in
\* missing_assets is one, and a surviving candidate is in assets exactly
\* when its resolved path is an existing regular file, in missing_assets
\* otherwise.
C6_Classification ==
    Parsed =>
        /\ \A i \in AssetIndices : RegularFile(AssetPathAt(i))
        /\ \A j \in MissingIndices : ~RegularFile(Report.missing_assets[j])
        /\ \A c \in Surviving :
             /\ RegularFile(Resolved(c))
                  <=> \E i \in AssetIndices : AssetPathAt(i) = Resolved(c)
             /\ ~RegularFile(Resolved(c))
                  <=> \E j \in MissingIndices :
                         Report.missing_assets[j] = Resolved(c)

\* A relative candidate found under the project directory, and a candidate
\* that names a directory.
C6_Witness ==
    /\ Parsed
    /\ \E c \in Surviving :
         ~IsAbs(Strip(c)) /\ RegularFile(Resolved(c))
         /\ ~RegularFile(PathJoin(Cwd, Strip(c)))
    /\ \E j \in MissingIndices : Exists(Report.missing_assets[j])

\* The sizes of the files a set of candidates resolves to, added up.
RECURSIVE SizesOf(_)
SizesOf(cands) ==
    IF cands = {} THEN 0
    ELSE LET c == CHOOSE x \in cands : TRUE
         IN  fs[OsResolve(Resolved(c))].size + SizesOf(cands \ {c})

UrlCandidates == {c \in asset_paths : HasUrlScheme(c)}

\* C7: a candidate that starts with http://, https:// or file:// once
\* trimmed is dropped: no entry of the report stands for it (its would-be
\* path has only the entries of the surviving candidates that resolve to
\* it, and the report has no more entries than there are other candidates)
\* and total_size adds up the surviving candidates' files only.
C7_UrlDropped ==
    Parsed =>
        /\ \A u \in UrlCandidates :
             EntriesFor(Resolved(u)) =
                 Cardinality({d \in Surviving : Resolved(d) = Resolved(u)})
        /\ Len(Report.assets) + Len(Report.missing_assets)
               <= Cardinality(asset_paths \ UrlCandidates)
        /\ Report.total_size =
               SizesOf({c \in Surviving : RegularFile(Resolved(c))})

\* A URL with leading whitespace was collected along with a real path.
C7_Witness ==
    /\ Parsed
    /\ \E u \in asset_paths : HasUrlScheme(u) /\ u # Strip(u)
    /\ Surviving # {}

\* C8: in every report parse_aepx returns, assets is in ascending order of
\* path and missing_assets in ascending order.
C8_Sorted ==
    Returned =>
        /\ \A i, j \in AssetIndices :
             i < j => StrLeq(AssetPathAt(i), AssetPathAt(j))
        /\ \A i, j \in MissingIndices :
             i < j => StrLeq(Report.missing_assets[i], Report.missing_assets[j])

\* A report with two different paths in assets.
C8_Witness ==
    /\ Parsed
    /\ \E i, j \in AssetIndices : AssetPathAt(i) # AssetPathAt(j)

\* C9: a second run of the same command on the unchanged filesystem gives
\* the same report, the same bytes on standard output and the same exit
\* status as the first, whatever order each run iterated the set in.
C9_Deterministic ==
    (Returned /\ prev # <<>> /\ prev[1].argv = argv) =>
        /\ prev[1].called
        /\ prev[1].result = result
        /\ prev[1].stdout = stdout
        /\ prev[1].exit_code = exit_code

\* A second run over several candidates, with several entries to order.
C9_Witness ==
    /\ Parsed
    /\ prev # <<>>
    /\ Cardinality(asset_paths) >= 2
    /\ \E i, j \in MissingIndices :
         Report.missing_assets[i] # Report.missing_assets[j]

\* The elements of the parsed document.
Elements ==
    LET root == GetRoot(argv[2]) IN {root[i] : i \in 1..Len(root)}

\* Rule A: the trimmed fullpath attribute of an element whose tag contains
\* fileReference, when it is not blank.
RuleA ==
    {Strip(e.attrib["fullpath"]) :
        e \in {x \in Elements :
                 /\ Contains(x.tag, "fileReference")
                 /\ "fullpath" \in DOMAIN x.attrib
                 /\ ~IsBlank(x.attrib["fullpath"])}}

\* Rule B: the text, untrimmed, of an element whose tag is fullpath.
RuleB ==
    {e.text : e \in {x \in Elements : x.tag = "fullpath" /\ x.text # ""}}

GenericTags == {"file", "path", "src", "source"}

\* Rule C: the text of an element whose tag is file, path, src or source,
\* and its attributes whose name contains path or file in any case.
RuleC ==
    {e.text : e \in {x \in Elements : x.tag \in GenericTags /\ x.text # ""}}
    \cup UNION {{e.attrib[a] :
                    a \in {n \in DOMAIN e.attrib :
                             \E w \in {"path", "file"} :
                                 Contains(Lower(n), w)}} :
                e \in {x \in Elements : x.tag \in GenericTags}}

\* C10: the candidate set is exactly the union of the three rules over all
\* the elements of the tree.
C10_CandidateSet == Parsed => asset_paths = RuleA \cup RuleB \cup RuleC

\* Rules A and C both contributed, Rule C a text and an attribute.
C10_Witness ==
    /\ Parsed
    /\ RuleA # {} /\ RuleC # {}
    /\ Cardinality(asset_paths) >= 3

====
